---- MODULE Spec2Model ----
(***************************************************************************)
(* Model of two components of langflow:                                    *)
(*   - DatabaseVariableService (services/variable/service.py): CRUD over   *)
(*     encrypted, user-scoped Variable rows;                               *)
(*   - FlowBase / FlowUpdate field validators                              *)
(*     (services/database/models/flow/model.py).                           *)
(*                                                                         *)
(* Text values are sequences of one-character strings.  A ciphertext is a  *)
(* sequence whose first element is the Fernet token marker, so that a      *)
(* stored value can be compared with a plaintext.                          *)
(***************************************************************************)
EXTENDS Integers, Sequences, FiniteSets, TLC

\* ------------------------------------------------------------------ bounds
\* Number of Variable rows that may ever be inserted (ids are 1..MaxId).
MaxId == 2
\* The clock (datetime.now) runs over 0..MaxTime.
MaxTime == 1
\* Runs of initialize_user_variables per concurrent caller.
MaxRuns == 2
\* Longest endpoint name, icon and colour text handed to the validators.
MaxNameLen == 3
MaxIconLen == 4
MaxColorLen == 8

\* --------------------------------------------------------------- universe
Users == {"u1", "u2"}

\* settings.variables_to_get_from_environment
VariablesToGet == <<"K1", "K3", "K2">>

Names == {"K1", "K2"}

CREDENTIAL_TYPE == "Credential"

GENERIC_TYPE == "Generic"

Types == {GENERIC_TYPE, CREDENTIAL_TYPE}

\* Plaintexts a caller supplies.
Plain == {<<>>, <<"a">>}

\* Target fields a caller of get_variable names.
Fields == {"session_id", "api_key"}

\* The process environment: K3 is not set, values carry surrounding whitespace.
Environ ==
  [n \in {"K1", "K2"} |-> IF n = "K1" THEN <<" ", "a">> ELSE <<"a", " ">>]

\* ------------------------------------------------------------- primitives
\* str.strip()
RECURSIVE lstrip(_)
lstrip(s) == IF s # <<>> /\ Head(s) = " " THEN lstrip(Tail(s)) ELSE s

RECURSIVE rstrip(_)
rstrip(s) ==
  IF s # <<>> /\ s[Len(s)] = " " THEN rstrip(SubSeq(s, 1, Len(s) - 1)) ELSE s

strip(s) == rstrip(lstrip(s))

\* The marker every Fernet token starts with.
TokenMark == "gAAAAA"

is_token(x) == x # <<>> /\ Head(x) = TokenMark

\* auth_utils.encrypt_api_key
encrypt_api_key(value) == <<TokenMark>> \o value

\* auth_utils.decrypt_api_key: a value that is no token does not decrypt.
decrypt_api_key(value) ==
  IF is_token(value) THEN [ok |-> TRUE, text |-> Tail(value)]
  ELSE [ok |-> FALSE, text |-> <<>>]

\* ------------------------------------------------------------------ state
VARIABLES
  variables,   \* the Variable table: a set of rows
  next_id,     \* the next fresh row id (uuid4)
  now,         \* the clock
  store_environment_variables,  \* settings flag
  environ,     \* os.environ restricted to the allow-list
  last,        \* the last service call: its arguments and its outcome
  pc, idx, found, runs,   \* concurrent initialize_user_variables callers
  fop, farg, fres         \* the last Flow field validation

svars == <<variables, next_id, now, store_environment_variables, environ, last>>
cvars == <<pc, idx, found, runs>>
fvars == <<fop, farg, fres>>
vars == <<svars, cvars, fvars>>

\* The Variable model's constructor (Variable.model_validate).
Variable(id, user_id, name, type, value, default_fields, t) ==
  [id |-> id, user_id |-> user_id, name |-> name, type |-> type,
   value |-> value, default_fields |-> default_fields, updated_at |-> t]

\* The (user_id, name) uniqueness the table enforces at commit.
unique_user_name(rows) ==
  \A r1, r2 \in rows :
    (r1.user_id = r2.user_id /\ r1.name = r2.name) => r1 = r2

\* select(Variable).where(user_id, name)
select_by_name(rows, user_id, name) ==
  {r \in rows : r.user_id = user_id /\ r.name = name}

\* select(Variable).where(user_id, id)
select_by_id(rows, user_id, id) ==
  {r \in rows : r.user_id = user_id /\ r.id = id}

\* .first(): no row (the empty set) or one of the rows selected
first(S) == IF S = {} THEN {} ELSE {CHOOSE r \in S : TRUE}

the(S) == CHOOSE r \in S : TRUE

\* The record of a call: arguments not used by an operation keep these values.
NoCall ==
  [op |-> "none", user_id |-> "", name |-> "", id |-> 0, field |-> "",
   value |-> <<>>, type |-> "", status |-> "ok", text |-> <<>>,
   rows |-> {}, names |-> {}, at |-> 0]

\* Requests are served one at a time: a call is taken when the outcome of
\* the one before it has been handed to its caller.
Idle == last = NoCall

Respond ==
  /\ last # NoCall
  /\ last' = NoCall
  /\ UNCHANGED <<variables, next_id, now, store_environment_variables, environ>>
  /\ UNCHANGED <<pc, idx, found, runs, fop, farg, fres>>

\* ------------------------------------------------------------- operations
\* get_variable: the status and the text returned
get_variable(rows, user_id, name, field) ==
  LET variable == first(select_by_name(rows, user_id, name)) IN
  IF variable = {} \/ the(variable).value = <<>>
  THEN [status |-> "ValueError", text |-> <<>>]
  ELSE IF the(variable).type = CREDENTIAL_TYPE /\ field = "session_id"
  THEN [status |-> "TypeError", text |-> <<>>]
  ELSE LET decrypted == decrypt_api_key(the(variable).value) IN
       IF decrypted.ok THEN [status |-> "ok", text |-> decrypted.text]
       ELSE [status |-> "InvalidToken", text |-> <<>>]

GetVariable(user_id, name, field) ==
  LET r == get_variable(variables, user_id, name, field) IN
  /\ Idle
  /\ last' = [NoCall EXCEPT !.op = "get_variable", !.user_id = user_id,
                !.name = name, !.field = field, !.status = r.status,
                !.text = r.text, !.at = now]
  /\ UNCHANGED <<variables, next_id, now, store_environment_variables, environ>>
  /\ UNCHANGED <<cvars, fvars>>

\* get_all
get_all(rows, user_id) == {r \in rows : r.user_id = user_id}

GetAll(user_id) ==
  /\ Idle
  /\ last' = [NoCall EXCEPT !.op = "get_all", !.user_id = user_id,
                !.rows = get_all(variables, user_id), !.at = now]
  /\ UNCHANGED <<variables, next_id, now, store_environment_variables, environ>>
  /\ UNCHANGED <<cvars, fvars>>

\* list_variables
list_variables(rows, user_id) == {r.name : r \in get_all(rows, user_id)}

ListVariables(user_id) ==
  /\ Idle
  /\ last' = [NoCall EXCEPT !.op = "list_variables", !.user_id = user_id,
                !.names = list_variables(variables, user_id), !.at = now]
  /\ UNCHANGED <<variables, next_id, now, store_environment_variables, environ>>
  /\ UNCHANGED <<cvars, fvars>>

\* create_variable: the table after the commit, and the outcome
create_variable(rows, id, user_id, name, value, default_fields, type, t) ==
  LET variable == Variable(id, user_id, name, type, encrypt_api_key(value),
                           default_fields, t)
      added == rows \cup {variable} IN
  IF unique_user_name(added) THEN [rows |-> added, status |-> "ok"]
  ELSE [rows |-> rows, status |-> "IntegrityError"]

CreateVariable(user_id, name, value, type) ==
  /\ Idle
  /\ next_id <= MaxId
  /\ LET r == create_variable(variables, next_id, user_id, name, value, <<>>,
                              type, now) IN
     /\ variables' = r.rows
     /\ next_id' = IF r.status = "ok" THEN next_id + 1 ELSE next_id
     /\ last' = [NoCall EXCEPT !.op = "create_variable", !.user_id = user_id,
                   !.name = name, !.value = value, !.type = type,
                   !.id = IF r.status = "ok" THEN next_id ELSE 0,
                   !.status = r.status, !.at = now]
  /\ UNCHANGED <<now, store_environment_variables, environ>>
  /\ UNCHANGED <<cvars, fvars>>

\* Variant of update_variable that persists the value as given.
update_variable_plain(rows, user_id, name, value) ==
  LET variable == first(select_by_name(rows, user_id, name)) IN
  IF variable = {} THEN [rows |-> rows, status |-> "ValueError"]
  ELSE LET updated == [the(variable) EXCEPT !.value = value] IN
       [rows |-> (rows \ variable) \cup {updated}, status |-> "ok"]

\* update_variable
update_variable(rows, user_id, name, value) ==
  LET variable == first(select_by_name(rows, user_id, name)) IN
  IF variable = {} THEN [rows |-> rows, status |-> "ValueError"]
  ELSE LET encrypted == encrypt_api_key(value)
           updated == [the(variable) EXCEPT !.value = encrypted] IN
       [rows |-> (rows \ variable) \cup {updated}, status |-> "ok"]

UpdateVariable(user_id, name, value) ==
  /\ Idle
  /\ LET r == update_variable(variables, user_id, name, value) IN
     /\ variables' = r.rows
     /\ last' = [NoCall EXCEPT !.op = "update_variable", !.user_id = user_id,
                   !.name = name, !.value = value, !.status = r.status,
                   !.at = now]
  /\ UNCHANGED <<next_id, now, store_environment_variables, environ>>
  /\ UNCHANGED <<cvars, fvars>>

\* A VariableUpdate patch: the fields set, and their values.
Patches ==
  { [set |-> s,
     name |-> IF "name" \in s THEN n ELSE "",
     value |-> IF "value" \in s THEN v ELSE <<>>] :
      s \in SUBSET {"name", "value"}, n \in Names, v \in Plain }

\* update_variable_fields
update_variable_fields(rows, user_id, variable_id, patch, t) ==
  LET matches == select_by_id(rows, user_id, variable_id) IN
  IF matches = {} THEN [rows |-> rows, status |-> "NoResultFound"]
  ELSE IF Cardinality(matches) > 1
  THEN [rows |-> rows, status |-> "MultipleResultsFound"]
  ELSE LET db_variable == the(matches)
           \* setattr(db_variable, key, value) for every field of the patch
           patched == [db_variable EXCEPT
                         !.name = IF "name" \in patch.set THEN patch.name ELSE @,
                         !.value = IF "value" \in patch.set THEN patch.value ELSE @,
                         !.updated_at = t]
           encrypted == encrypt_api_key(patched.value)
           \* variable.value = encrypted: assigned to the patch, not to the row
           variable == [patch EXCEPT !.value = encrypted]
           committed == (rows \ matches) \cup {patched} IN
       IF unique_user_name(committed) THEN [rows |-> committed, status |-> "ok"]
       ELSE [rows |-> rows, status |-> "IntegrityError"]

UpdateVariableFields(user_id, variable_id, patch) ==
  /\ Idle
  /\ LET r == update_variable_fields(variables, user_id, variable_id, patch, now) IN
     /\ variables' = r.rows
     /\ last' = [NoCall EXCEPT !.op = "update_variable_fields",
                   !.user_id = user_id, !.id = variable_id,
                   !.name = patch.name, !.value = patch.value,
                   !.names = patch.set, !.status = r.status, !.at = now]
  /\ UNCHANGED <<next_id, now, store_environment_variables, environ>>
  /\ UNCHANGED <<cvars, fvars>>

\* delete_variable
delete_variable(rows, user_id, name) ==
  LET variable == first(select_by_name(rows, user_id, name)) IN
  IF variable = {} THEN [rows |-> rows, status |-> "ValueError"]
  ELSE [rows |-> rows \ variable, status |-> "ok"]

DeleteVariable(user_id, name) ==
  /\ Idle
  /\ LET r == delete_variable(variables, user_id, name) IN
     /\ variables' = r.rows
     /\ last' = [NoCall EXCEPT !.op = "delete_variable", !.user_id = user_id,
                   !.name = name, !.status = r.status, !.at = now]
  /\ UNCHANGED <<next_id, now, store_environment_variables, environ>>
  /\ UNCHANGED <<cvars, fvars>>

\* Variant of delete_variable_by_id that selects by id alone.
delete_variable_by_id_any_user(rows, user_id, variable_id) ==
  LET variable == first({r \in rows : r.id = variable_id}) IN
  IF variable = {} THEN [rows |-> rows, status |-> "ValueError"]
  ELSE [rows |-> rows \ variable, status |-> "ok"]

\* delete_variable_by_id
delete_variable_by_id(rows, user_id, variable_id) ==
  LET variable == first(select_by_id(rows, user_id, variable_id)) IN
  IF variable = {} THEN [rows |-> rows, status |-> "ValueError"]
  ELSE [rows |-> rows \ variable, status |-> "ok"]

DeleteVariableById(user_id, variable_id) ==
  /\ Idle
  /\ LET r == delete_variable_by_id(variables, user_id, variable_id) IN
     /\ variables' = r.rows
     /\ last' = [NoCall EXCEPT !.op = "delete_variable_by_id",
                   !.user_id = user_id, !.id = variable_id,
                   !.status = r.status, !.at = now]
  /\ UNCHANGED <<next_id, now, store_environment_variables, environ>>
  /\ UNCHANGED <<cvars, fvars>>

\* datetime.now advances between calls
Tick ==
  /\ now < MaxTime
  /\ now' = now + 1
  /\ UNCHANGED <<variables, next_id, store_environment_variables, environ, last>>
  /\ UNCHANGED <<cvars, fvars>>

\* Failures the external collaborators may produce while one environment
\* variable is processed: none, in encrypt_api_key, or in session.commit.
Faults == [DOMAIN Environ -> {"none", "encrypt", "commit"}]

\* Variant of environment_value that keeps the surrounding whitespace.
environment_value_raw(env, var) == env[var]

\* value = os.environ[var]; if isinstance(value, str): value = value.strip()
environment_value(env, var) == strip(env[var])

\* The update branch: re-encrypt and overwrite the value of the row found.
overwrite_found(rows, found_variable, value) ==
  LET encrypted == encrypt_api_key(value) IN
  {IF r.id = found_variable.id THEN [r EXCEPT !.value = encrypted] ELSE r :
     r \in rows}

\* initialize_user_variables, the body of the loop from position i on:
\* the table, the ids used, whether an exception left the loop, and the
\* names whose processing was started.
RECURSIVE initialize_loop(_, _, _, _, _, _, _)
initialize_loop(rows, id, i, user_id, env, fault, t) ==
  IF i > Len(VariablesToGet)
  THEN [rows |-> rows, next_id |-> id, status |-> "ok", names |-> {}]
  ELSE
    LET var == VariablesToGet[i] IN
    IF var \notin DOMAIN env
    THEN initialize_loop(rows, id, i + 1, user_id, env, fault, t)
    ELSE
      LET found_variable == first(select_by_name(rows, user_id, var))
          value == environment_value(env, var) IN
      IF found_variable # {}
      THEN \* update it: no try/except around this branch
        IF fault[var] # "none"
        THEN [rows |-> rows, next_id |-> id, status |-> "raised", names |-> {var}]
        ELSE
          LET rest == initialize_loop(
                        overwrite_found(rows, the(found_variable), value),
                        id, i + 1, user_id, env, fault, t) IN
          [rest EXCEPT !.names = @ \cup {var}]
      ELSE \* create it: any exception is caught and logged
        LET created == IF fault[var] # "none"
                       THEN [rows |-> rows, status |-> "logged"]
                       ELSE create_variable(rows, id, user_id, var, value, <<>>,
                                            CREDENTIAL_TYPE, t)
            rest == initialize_loop(created.rows,
                                    IF created.status = "ok" THEN id + 1 ELSE id,
                                    i + 1, user_id, env, fault, t) IN
        [rest EXCEPT !.names = @ \cup {var}]

\* initialize_user_variables
initialize_user_variables(rows, id, user_id, flag, env, fault, t) ==
  IF flag THEN initialize_loop(rows, id, 1, user_id, env, fault, t)
  ELSE [rows |-> rows, next_id |-> id, status |-> "ok", names |-> {}]

InitializeUserVariables(user_id, fault) ==
  /\ Idle
  /\ LET r == initialize_user_variables(variables, next_id, user_id,
                  store_environment_variables, environ, fault, now) IN
     /\ r.next_id <= MaxId + 1
     /\ variables' = r.rows
     /\ next_id' = r.next_id
     /\ last' = [NoCall EXCEPT !.op = "initialize_user_variables",
                   !.user_id = user_id, !.status = r.status,
                   !.names = r.names, !.at = now]
  /\ UNCHANGED <<now, store_environment_variables, environ>>
  /\ UNCHANGED <<cvars, fvars>>

\* ---------------------------------------------------------- specification
ServiceInit ==
  /\ variables = {}
  /\ next_id = 1
  /\ now = 0
  /\ store_environment_variables \in BOOLEAN
  /\ environ = Environ
  /\ last = NoCall

IdleCallers ==
  /\ pc = [p \in {} |-> "idle"]
  /\ idx = [p \in {} |-> 0]
  /\ found = [p \in {} |-> {}]
  /\ runs = [p \in {} |-> 0]

IdleValidator ==
  /\ fop = "none"
  /\ farg = [kind |-> "none", text |-> <<>>]
  /\ fres = [status |-> "pending", value |-> [kind |-> "none", text |-> <<>>]]

Init == ServiceInit /\ IdleCallers /\ IdleValidator

Next ==
  \/ \E u \in Users, n \in Names, f \in Fields : GetVariable(u, n, f)
  \/ \E u \in Users : GetAll(u)
  \/ \E u \in Users : ListVariables(u)
  \/ \E u \in Users, n \in Names, v \in Plain, ty \in Types :
       CreateVariable(u, n, v, ty)
  \/ \E u \in Users, n \in Names, v \in Plain : UpdateVariable(u, n, v)
  \/ \E u \in Users, id \in 1..MaxId, patch \in Patches :
       UpdateVariableFields(u, id, patch)
  \/ \E u \in Users, n \in Names : DeleteVariable(u, n)
  \/ \E u \in Users, id \in 1..MaxId : DeleteVariableById(u, id)
  \/ \E u \in Users, fault \in Faults : InitializeUserVariables(u, fault)
  \/ Respond

Spec == Init /\ [][Next]_vars

\* The calls that write a row's value, with the clock running between them.
ClockNext ==
  \/ \E u \in Users, n \in Names, v \in Plain, ty \in Types :
       CreateVariable(u, n, v, ty)
  \/ \E u \in Users, n \in Names, v \in Plain : UpdateVariable(u, n, v)
  \/ \E u \in Users, id \in 1..MaxId, patch \in Patches :
       UpdateVariableFields(u, id, patch)
  \/ Respond
  \/ Tick

ClockSpec == Init /\ [][ClockNext]_vars

\* ------------------------------------- concurrent initialize_user_variables
\* Two callers run initialize_user_variables for the same user, each with a
\* session of its own; every statement that reads or commits is one step.
Callers == {"c1", "c2"}

InitUser == "u1"

\* A row the user created before any import, with a value that is stale.
PreExisting ==
  Variable(1, InitUser, "K1", GENERIC_TYPE, encrypt_api_key(<<>>), <<>>, 0)

\* Entry: the flag is read; a disabled flag returns at once.
Start(p) ==
  /\ pc[p] = "idle"
  /\ runs[p] < MaxRuns
  /\ runs' = [runs EXCEPT ![p] = @ + 1]
  /\ idx' = [idx EXCEPT ![p] = 1]
  /\ pc' = [pc EXCEPT ![p] = IF store_environment_variables THEN "loop" ELSE "idle"]
  /\ UNCHANGED <<found, svars, fvars>>

\* The head of the loop: the next allow-listed name, and the select.
Loop(p) ==
  /\ pc[p] = "loop"
  /\ IF idx[p] > Len(VariablesToGet)
     THEN /\ pc' = [pc EXCEPT ![p] = "idle"]
          /\ UNCHANGED <<idx, found>>
     ELSE IF VariablesToGet[idx[p]] \notin DOMAIN environ
     THEN /\ idx' = [idx EXCEPT ![p] = @ + 1]
          /\ UNCHANGED <<pc, found>>
     ELSE LET hit == first(select_by_name(variables, InitUser,
                                          VariablesToGet[idx[p]])) IN
          /\ found' = [found EXCEPT ![p] = hit]
          /\ pc' = [pc EXCEPT ![p] = IF hit # {} THEN "update" ELSE "create"]
          /\ UNCHANGED idx
  /\ UNCHANGED <<runs, svars, fvars>>

\* The update branch: encrypt, assign, commit.
Update(p) ==
  /\ pc[p] = "update"
  /\ variables' = overwrite_found(variables, the(found[p]),
                     environment_value(environ, VariablesToGet[idx[p]]))
  /\ idx' = [idx EXCEPT ![p] = @ + 1]
  /\ pc' = [pc EXCEPT ![p] = "loop"]
  /\ found' = [found EXCEPT ![p] = {}]
  /\ UNCHANGED <<runs, next_id, now, store_environment_variables, environ, last, fvars>>

\* The create branch, inside try/except: a commit the uniqueness constraint
\* rejects is logged and the loop goes on.
Create(p) ==
  /\ pc[p] = "create"
  /\ LET r == create_variable(variables, next_id, InitUser,
                 VariablesToGet[idx[p]],
                 environment_value(environ, VariablesToGet[idx[p]]),
                 <<>>, CREDENTIAL_TYPE, now) IN
     /\ variables' = r.rows
     /\ next_id' = IF r.status = "ok" THEN next_id + 1 ELSE next_id
  /\ idx' = [idx EXCEPT ![p] = @ + 1]
  /\ pc' = [pc EXCEPT ![p] = "loop"]
  /\ UNCHANGED <<runs, found, now, store_environment_variables, environ, last, fvars>>

ConcInit ==
  /\ variables \in {{}, {PreExisting}}
  /\ next_id = 2
  /\ now = 0
  /\ store_environment_variables \in BOOLEAN
  /\ environ = Environ
  /\ last = NoCall
  /\ pc = [p \in Callers |-> "idle"]
  /\ idx = [p \in Callers |-> 1]
  /\ found = [p \in Callers |-> {}]
  /\ runs = [p \in Callers |-> 0]
  /\ IdleValidator

ConcNext == \E p \in Callers : Start(p) \/ Loop(p) \/ Update(p) \/ Create(p)

ConcSpec == ConcInit /\ [][ConcNext]_vars

\* --------------------------------------------------- Flow field validators
\* A field value: None, a value that is no text, or a text.
None == [kind |-> "none", text |-> <<>>]

NonText == [kind |-> "int", text |-> <<>>]

Text(s) == [kind |-> "str", text |-> s]

\* All texts over an alphabet up to a length.
Texts(alphabet, n) == UNION {[1..k -> alphabet] : k \in 0..n}

\* The class [a-zA-Z0-9_-]
EndpointClass == {"a", "Z", "0", "_", "-"}

EndpointAlphabet == EndpointClass \cup {"\n", " ", "/"}

\* re.match(r"^[a-zA-Z0-9_-]+$", v): "+" takes the longest run of class
\* characters; "$" matches at the end of the text and also just before a
\* newline that ends it.
re_match(v) ==
  LET k == CHOOSE n \in 0..Len(v) :
             /\ \A i \in 1..n : v[i] \in EndpointClass
             /\ (n = Len(v) \/ v[n + 1] \notin EndpointClass) IN
  /\ k >= 1
  /\ \/ k = Len(v)
     \/ k = Len(v) - 1 /\ v[Len(v)] = "\n"

\* FlowBase.validate_endpoint_name
validate_endpoint_name(v) ==
  IF v.kind # "none"
  THEN IF v.kind # "str" THEN [status |-> "HTTP_422", value |-> None]
       ELSE IF ~re_match(v.text) THEN [status |-> "HTTP_422", value |-> None]
       ELSE [status |-> "ok", value |-> v]
  ELSE [status |-> "ok", value |-> v]

\* FlowUpdate.validate_endpoint_name
update_validate_endpoint_name(v) ==
  IF v.kind # "none"
  THEN IF v.kind # "str" THEN [status |-> "HTTP_422", value |-> None]
       ELSE IF ~re_match(v.text) THEN [status |-> "HTTP_422", value |-> None]
       ELSE [status |-> "ok", value |-> v]
  ELSE [status |-> "ok", value |-> v]

\* Python truthiness of a field value: None and the empty text are false.
truthy(v) == v.kind = "int" \/ (v.kind = "str" /\ v.text # <<>>)

startswith(s, c) == s # <<>> /\ s[1] = c

endswith(s, c) == s # <<>> /\ s[Len(s)] = c

\* FlowBase.validate_icon_bg_color
validate_icon_bg_color(v) ==
  IF v.kind # "none" /\ v.kind # "str"
  THEN [status |-> "ValueError", value |-> None]
  ELSE IF truthy(v) /\ ~startswith(v.text, "#")
  THEN [status |-> "ValueError", value |-> None]
  ELSE IF truthy(v) /\ Len(v.text) # 7
  THEN [status |-> "ValueError", value |-> None]
  ELSE [status |-> "ok", value |-> v]

\* The emoji table: the shorthand :a: names the glyph G.
Glyph == "G"

EmojiNames == {<<"a">>}

Lowercase == {"a", "b"}

Uppercase == {"A"}

IconAlphabet == {":", "a", "A", "-", "1", Glyph}

\* emoji.emojize: every :name: of the table is replaced by its glyph, the
\* rest of the text is kept.
RECURSIVE emojize(_)
emojize(s) ==
  IF s = <<>> THEN <<>>
  ELSE LET ends == {j \in 2..Len(s) :
                      s[j] = ":" /\ SubSeq(s, 2, j - 1) \in EmojiNames} IN
       IF Head(s) = ":" /\ ends # {}
       THEN LET j == CHOOSE e \in ends : \A o \in ends : e <= o IN
            <<Glyph>> \o emojize(SubSeq(s, j + 1, Len(s)))
       ELSE <<Head(s)>> \o emojize(Tail(s))

\* emoji.purely_emoji
purely_emoji(s) == \A i \in 1..Len(s) : s[i] = Glyph

\* str.islower: some cased character, and no uppercase one
islower(s) ==
  /\ \E i \in 1..Len(s) : s[i] \in Lowercase
  /\ \A i \in 1..Len(s) : s[i] \notin Uppercase

\* str.replace("-", "")
RECURSIVE remove_hyphens(_)
remove_hyphens(s) ==
  IF s = <<>> THEN <<>>
  ELSE IF Head(s) = "-" THEN remove_hyphens(Tail(s))
  ELSE <<Head(s)>> \o remove_hyphens(Tail(s))

\* str.isalpha: not empty, and letters only
isalpha(s) ==
  s # <<>> /\ \A i \in 1..Len(s) : s[i] \in Lowercase \cup Uppercase

\* Variant of validate_icon_atr that lets a text with one colon through.
validate_icon_atr_one_colon(v) ==
  IF v.kind = "none" THEN [status |-> "ok", value |-> v]
  ELSE IF ~startswith(v.text, ":") \/ ~endswith(v.text, ":")
  THEN [status |-> "ok", value |-> v]
  ELSE LET icon == emojize(v.text) IN
       IF purely_emoji(icon) THEN [status |-> "ok", value |-> Text(icon)]
       ELSE IF truthy(v) /\ ~islower(v.text)
       THEN [status |-> "ValueError", value |-> None]
       ELSE IF truthy(v) /\ ~isalpha(remove_hyphens(v.text))
       THEN [status |-> "ValueError", value |-> None]
       ELSE [status |-> "ok", value |-> v]

\* FlowBase.validate_icon_atr (the field holds None or a text)
validate_icon_atr(v) ==
  IF v.kind = "none" THEN [status |-> "ok", value |-> v]
  ELSE IF ~startswith(v.text, ":") /\ ~endswith(v.text, ":")
  THEN [status |-> "ok", value |-> v]
  ELSE IF ~startswith(v.text, ":") \/ ~endswith(v.text, ":")
  THEN [status |-> "ValueError", value |-> None]
  ELSE LET emoji_value == emojize(v.text)
           \* v == emoji_value only warns; icon is emoji_value either way
           icon == emoji_value IN
       IF purely_emoji(icon) THEN [status |-> "ok", value |-> Text(icon)]
       ELSE IF truthy(v) /\ ~islower(v.text)
       THEN [status |-> "ValueError", value |-> None]
       ELSE IF truthy(v) /\ ~isalpha(remove_hyphens(v.text))
       THEN [status |-> "ValueError", value |-> None]
       ELSE [status |-> "ok", value |-> v]

\* Values handed to the validators.
EndpointValues ==
  {None, NonText} \cup {Text(s) : s \in Texts(EndpointAlphabet, MaxNameLen)}

\* Colour texts: a first character, then one character repeated.
ColorTexts ==
  { [i \in 1..n |-> IF i = 1 THEN c ELSE d] :
      n \in 0..MaxColorLen, c \in {"#", "1"}, d \in {"a", "g"} }

ColorValues == {None, NonText} \cup {Text(s) : s \in ColorTexts}

IconValues == {None} \cup {Text(s) : s \in Texts(IconAlphabet, MaxIconLen)}

\* The validation of one field value: the field and the value are given
\* (fop, farg), the validator has not run yet.
Pending == [status |-> "pending", value |-> None]

ValidateEndpointName ==
  /\ fop = "FlowBase.endpoint_name" /\ fres = Pending
  /\ fres' = validate_endpoint_name(farg)
  /\ UNCHANGED <<fop, farg, svars, cvars>>

UpdateValidateEndpointName ==
  /\ fop = "FlowUpdate.endpoint_name" /\ fres = Pending
  /\ fres' = update_validate_endpoint_name(farg)
  /\ UNCHANGED <<fop, farg, svars, cvars>>

ValidateIconBgColor ==
  /\ fop = "FlowBase.icon_bg_color" /\ fres = Pending
  /\ fres' = validate_icon_bg_color(farg)
  /\ UNCHANGED <<fop, farg, svars, cvars>>

ValidateIconAtr ==
  /\ fop = "FlowBase.icon" /\ fres = Pending
  /\ fres' = validate_icon_atr(farg)
  /\ UNCHANGED <<fop, farg, svars, cvars>>

FlowInit ==
  /\ variables = {}
  /\ next_id = 1
  /\ now = 0
  /\ store_environment_variables = TRUE
  /\ environ = Environ
  /\ last = NoCall
  /\ IdleCallers
  /\ \/ fop \in {"FlowBase.endpoint_name", "FlowUpdate.endpoint_name"}
        /\ farg \in EndpointValues
     \/ fop = "FlowBase.icon_bg_color" /\ farg \in ColorValues
     \/ fop = "FlowBase.icon" /\ farg \in IconValues
  /\ fres = Pending

FlowNext ==
  \/ ValidateEndpointName
  \/ UpdateValidateEndpointName
  \/ ValidateIconBgColor
  \/ ValidateIconAtr

FlowSpec == FlowInit /\ [][FlowNext]_vars

\* ================================================================ properties
Ok(call) == call.status = "ok"

\* The row of the last call's (user_id, name), as a set.
LastRow == select_by_name(variables, last.user_id, last.name)

\* C1 (under Spec): every persisted value is an output of the
\* encryption primitive, and after update_variable_fields with a patch that
\* holds `value` the persisted value is the encryption of the patched text.
C1_EncryptionAtRest ==
  /\ \A r \in variables : is_token(r.value)
  /\ (last.op = "update_variable_fields" /\ Ok(last) /\ "value" \in last.names)
       => \A r \in variables :
            r.id = last.id => r.value = encrypt_api_key(last.value)

\* C2 as stated (under Spec): right after create_variable with type
\* generic, or after update_variable on an existing variable, get_variable
\* returns the plaintext written for every field, and the persisted value
\* differs from that plaintext.  No call between the write and the reads
\* changes the table, so the reads are evaluated on the state the write left.
C2_RoundTripEveryField ==
  ((last.op = "create_variable" /\ last.type = GENERIC_TYPE) \/
   last.op = "update_variable") /\ Ok(last)
    => /\ \A f \in Fields :
            get_variable(variables, last.user_id, last.name, f)
              = [status |-> "ok", text |-> last.value]
       /\ \A r \in LastRow : r.value # last.value

\* C2 as amended (under Spec): the same round trip, except that
\* for a credential-typed variable the field session_id raises TypeError.
C2_RoundTrip ==
  ((last.op = "create_variable" /\ last.type = GENERIC_TYPE) \/
   last.op = "update_variable") /\ Ok(last)
    => /\ LastRow # {}
       /\ \A r \in LastRow : \A f \in Fields :
            get_variable(variables, last.user_id, last.name, f)
              = IF r.type = CREDENTIAL_TYPE /\ f = "session_id"
                THEN [status |-> "TypeError", text |-> <<>>]
                ELSE [status |-> "ok", text |-> last.value]
       /\ \A r \in LastRow : r.value # last.value

\* C2 witness: update_variable has rewritten a credential-typed variable.
C2_Witness ==
  /\ last.op = "update_variable" /\ Ok(last) /\ last.value = <<"a">>
  /\ \E r \in LastRow : r.type = CREDENTIAL_TYPE

\* C3 (under Spec): for every credential-typed row with a
\* non-empty stored value get_variable raises TypeError for session_id and
\* returns the decrypted value for any other field; a generic-typed row is
\* returned for every field.
C3_CredentialGuard ==
  \A r \in variables : r.value # <<>> =>
    \A f \in Fields :
      get_variable(variables, r.user_id, r.name, f)
        = IF r.type = CREDENTIAL_TYPE /\ f = "session_id"
          THEN [status |-> "TypeError", text |-> <<>>]
          ELSE [status |-> "ok", text |-> decrypt_api_key(r.value).text]

\* The allow-listed names the environment holds.
Importable == {VariablesToGet[i] : i \in 1..Len(VariablesToGet)} \cap DOMAIN environ

\* C4 (under Spec): with the flag enabled, whatever fails while one
\* environment variable is processed, initialize_user_variables does not
\* raise and processes every allow-listed name of the environment.
C4_BestEffortImport ==
  (last.op = "initialize_user_variables" /\ store_environment_variables)
    => Ok(last) /\ last.names = Importable

\* C5 (under ClockSpec): after a successful update_variable the
\* row's updated_at is the time of that call.
C5_UpdatedAtRefreshed ==
  (last.op = "update_variable" /\ Ok(last))
    => \A r \in LastRow : r.updated_at = last.at

AllInClass(s) == \A i \in 1..Len(s) : s[i] \in EndpointClass

\* C6 (under FlowSpec): endpoint_name validation, on FlowBase and on
\* FlowUpdate, accepts None, returns unchanged every non-empty text made of
\* [A-Za-z0-9_-] only, and rejects every other text with the 422 error.
C6_EndpointName ==
  (fop \in {"FlowBase.endpoint_name", "FlowUpdate.endpoint_name"} /\ fres # Pending)
    => /\ farg.kind = "none" => fres = [status |-> "ok", value |-> farg]
       /\ farg.kind = "str" =>
            IF farg.text # <<>> /\ AllInClass(farg.text)
            THEN fres = [status |-> "ok", value |-> farg]
            ELSE fres.status = "HTTP_422"

\* C7 (under FlowSpec): icon_bg_color validation accepts None,
\* returns unchanged every text of length 7 that starts with '#', and
\* rejects every other value, the empty text included.
C7_IconBgColor ==
  (fop = "FlowBase.icon_bg_color" /\ fres # Pending)
    => IF farg.kind = "none" \/
          (farg.kind = "str" /\ Len(farg.text) = 7 /\ farg.text[1] = "#")
       THEN fres = [status |-> "ok", value |-> farg]
       ELSE fres.status = "ValueError"

\* The icon-library identifier shape: lowercase, letters and hyphens only.
IsIdentifier(s) ==
  /\ \A i \in 1..Len(s) : s[i] \in Lowercase \cup {"-"}
  /\ \E i \in 1..Len(s) : s[i] \in Lowercase

\* The decision table of C8.
IconTable(v) ==
  IF v.kind = "none" THEN [status |-> "ok", value |-> v]
  ELSE LET s == v.text
           leading == Len(s) > 0 /\ s[1] = ":"
           trailing == Len(s) > 0 /\ s[Len(s)] = ":" IN
       CASE ~leading /\ ~trailing -> [status |-> "ok", value |-> v]
         [] leading # trailing -> [status |-> "ValueError", value |-> None]
         [] OTHER ->
              IF purely_emoji(emojize(s))
              THEN [status |-> "ok", value |-> Text(emojize(s))]
              ELSE IF IsIdentifier(s) THEN [status |-> "ok", value |-> v]
              ELSE [status |-> "ValueError", value |-> None]

\* C8 (under FlowSpec): icon validation follows the decision table:
\* None and texts without a colon at either end pass unchanged, one colon
\* at one end only is rejected, :name: that resolves to a pure glyph yields
\* the glyph, anything else between colons must be a lowercase
\* letters-and-hyphens identifier.
C8_IconTable ==
  (fop = "FlowBase.icon" /\ fres # Pending) => fres = IconTable(farg)

\* C8 witness: the shorthand :a: has been resolved to its glyph.
C8_Witness ==
  /\ fop = "FlowBase.icon"
  /\ farg = Text(<<":", "a", ":">>)
  /\ fres = [status |-> "ok", value |-> Text(<<Glyph>>)]

\* Some caller has completed a run of the import.
RunCompleted == \E p \in DOMAIN pc : pc[p] = "idle" /\ runs[p] >= 1

\* C9 (under ConcSpec): with the flag enabled, once a run of
\* initialize_user_variables has completed, however the callers' steps
\* interleave, the user has exactly one row per allow-listed name of the
\* environment, its value the encryption of the trimmed environment value,
\* its type credential when the import created it, and no caller raised.
C9_NoDuplicateImport ==
  /\ \A p \in DOMAIN pc : pc[p] # "raised"
  /\ unique_user_name(variables)
  /\ (store_environment_variables /\ RunCompleted)
       => \A n \in Importable :
            /\ Cardinality(select_by_name(variables, InitUser, n)) = 1
            /\ \A r \in select_by_name(variables, InitUser, n) :
                 /\ r.value = encrypt_api_key(strip(environ[n]))
                 /\ r.id # PreExisting.id => r.type = CREDENTIAL_TYPE

\* C9 witness: both callers have run the import MaxRuns times and the row
\* that existed before has been overwritten, not duplicated.
C9_Witness ==
  /\ DOMAIN pc = Callers
  /\ \A p \in Callers : pc[p] = "idle" /\ runs[p] = MaxRuns
  /\ store_environment_variables
  /\ Cardinality(variables) = 2
  /\ \E r \in variables :
       r.id = PreExisting.id /\ r.value = encrypt_api_key(<<"a">>)

\* What a call hands back belongs to the caller, and a call that names
\* another user's row, or a name the caller does not own, fails.
C10_Returns ==
  /\ last.op = "get_all" => \A r \in last.rows : r.user_id = last.user_id
  /\ last.op = "list_variables"
       => last.names = {r.name : r \in {x \in variables : x.user_id = last.user_id}}
  /\ (last.op = "get_variable" /\ Ok(last))
       => \E r \in variables :
            /\ r.user_id = last.user_id /\ r.name = last.name
            /\ r.value = encrypt_api_key(last.text)
  /\ (last.op \in {"update_variable_fields", "delete_variable_by_id"}
        /\ \E r \in variables : r.id = last.id /\ r.user_id # last.user_id)
       => last.status \in {"NoResultFound", "ValueError"}
  /\ (last.op \in {"get_variable", "update_variable"}
        /\ ~\E r \in variables : r.user_id = last.user_id /\ r.name = last.name)
       => last.status = "ValueError"

\* A call leaves the rows of every user other than the caller as they were;
\* delete_variable of a name the caller does not own fails.
C10_Frame ==
  /\ \A u \in Users :
       u # last'.user_id
         => {r \in variables' : r.user_id = u} = {r \in variables : r.user_id = u}
  /\ (last'.op = "delete_variable"
        /\ ~\E r \in variables : r.user_id = last'.user_id /\ r.name = last'.name)
       => last'.status = "ValueError"

\* C10 (under Spec): user isolation: no call returns, modifies or
\* deletes a row of another user; a call aimed at another user's row fails
\* and leaves it unchanged.
C10_Isolation == []C10_Returns /\ [][C10_Frame]_vars

\* C10 witness: u1 called delete_variable_by_id with the id of a row of u2,
\* which failed and left the row there.
C10_Witness ==
  /\ last.op = "delete_variable_by_id" /\ last.user_id = "u1"
  /\ last.status = "ValueError"
  /\ \E r \in variables : r.id = last.id /\ r.user_id = "u2"

====
